---- MODULE Spec2Model ----
(***************************************************************************)
(* Real-time gateway of GemDesk: the Socket.IO connection handlers, the    *)
(* per-user message queue (messageQueues / processingUsers /               *)
(* processMessageQueue) of server/routes.ts and the per-request Gemini CLI *)
(* process of GeminiCLIService.sendMessage.                                *)
(*                                                                         *)
(* Node runs every handler to its next await without interleaving, so one  *)
(* action is one handler (or one continuation of an async function) up to  *)
(* the point where it suspends.                                            *)
(***************************************************************************)
EXTENDS Integers, Sequences, FiniteSets, TLC

\* ---------------------------------------------------------------- bounds
MaxConns == 2          \* socket ids that may ever connect
MaxChat == 3           \* chat requests received in one run, on either entry point
MaxCalls == 1          \* direct calls of sendMessage that are followed in detail
MaxOut == 2            \* characters the CLI process writes to stdout in such a call
MaxWs == 2             \* connections accepted by the WebSocket gateway
MaxWsMsgs == 2         \* messages received by the WebSocket gateway in one run
MaxFiles == 3          \* files and folders created in one run
MaxAuth == 3           \* validateSession calls in one run
MaxSockets == 8        \* sockets one browser client creates in one run

\* ------------------------------------------------------- program constants
DefaultUserId == 5     \* socket.data.userId = 5

NoUser == 0            \* socket.data.userId not set
NoReq == 0
\* parentId null / parentId argument absent
NoFile == 0
\* a second account: MemStorage.createUser hands out currentUserId++
OtherUserId == 6
Owners == {DefaultUserId, OtherUserId}             \* an event that belongs to no queued request

Conns == 1..MaxConns
Users == {DefaultUserId}

\* handshake tokens a client may present: none, one with a stored session, one
\* with no session
NoToken == "none"
Tokens == {NoToken, "good", "other", "bad"}
ValidTokens == {"good", "other"}
\* the two classes that implement IStorage
StorageImpls == {"mem", "db"}

\* the token in the handshake of each socket (auth: { token }): the first client
\* connects without one, the second with a valid one, any other with an
\* unknown one
HandshakeToken(c) == IF c = 1 THEN NoToken ELSE IF c = 2 THEN "good" ELSE "bad"

\* data.content of a chat_message event: missing/empty or a text
Contents == {"", "hello"}

\* exit codes of the CLI process and what it wrote to stdout, as characters:
\* nothing, white space only, a text, a text inside white space
ExitCodes == {0, 1}
Outputs == {<<>>, <<" ">>, <<"x">>, <<" ", "x", " ">>}

\* code === null in the close handler: the process was ended by a signal
NullCode == -1
CloseCodes == ExitCodes \cup {NullCode}
\* what one stdout 'data' event can carry
Chunks == {<<" ">>, <<"x">>}
Calls == 1..MaxCalls

VARIABLES
  conn,             \* socket id -> [state, userId (socket.data.userId),
                    \* welcomed (the 'connected' event was emitted to it)]
  messageQueues,    \* Map<userId, Array<{content, socket}>>: a function on the keys present
  processingUsers,  \* Set<userId>
  active,           \* activations of processMessageQueue past queue.shift()
  scheduled,        \* userId -> pending setImmediate(processMessageQueue) callbacks
  procs,            \* request id -> the sendMessage call made for it:
                    \* processCompleted and how the promise settled
  transcript,       \* storage.createChatMessage calls, in order
  emitted,          \* socket.emit calls of 'ai_response' and 'error', in order
  enqueued,         \* every entry pushed on a queue, in order (entry id = index)
  chatCount,        \* chat_message events received
  cli,              \* call id -> the child process, the timer and the promise of one
                    \* sendMessage call; empty where the process is not followed
  rest,             \* the POST /api/gemini/chat handlers that have not responded yet
  auth,             \* one AuthService.validateSession call and the storage it reads
  fs,               \* the files table and the FileService calls made on it
  ws,               \* the connections of the WebSocket gateway (wss)
  client            \* the browser's socket manager: socket, counter, timer

vars == <<conn, messageQueues, processingUsers, active, scheduled, procs,
          transcript, emitted, enqueued, chatCount, cli, rest, auth,
          fs, ws, client>>

\* what the Socket.IO handlers and processMessageQueue never touch
outside == <<cli, rest, auth, fs, ws, client>>

\* ------------------------------------------------------------- helpers
\* messageQueues.get(userId) || []
QueueOf(mq, userId) == IF userId \in DOMAIN mq THEN mq[userId] ELSE <<>>

\* messageQueues.set(userId, q)
MapSet(mq, userId, q) ==
  [k \in DOMAIN mq \cup {userId} |-> IF k = userId THEN q ELSE mq[k]]

\* messageQueues.delete(userId)
MapDelete(mq, userId) == [k \in DOMAIN mq \ {userId} |-> mq[k]]

RemoveAt(s, i) == [j \in 1..(Len(s) - 1) |-> IF j < i THEN s[j] ELSE s[j + 1]]

\* String.prototype.trim on the process output
RECURSIVE TrimLeft(_)
TrimLeft(s) == IF s # <<>> /\ Head(s) = " " THEN TrimLeft(Tail(s)) ELSE s
RECURSIVE TrimRight(_)
TrimRight(s) ==
  IF s # <<>> /\ s[Len(s)] = " " THEN TrimRight(SubSeq(s, 1, Len(s) - 1)) ELSE s
Trim(s) == TrimRight(TrimLeft(s))

Event(to, type, req) == [to |-> to, type |-> type, req |-> req]
Record(userId, sender, req, content) ==
  [userId |-> userId, sender |-> sender, req |-> req, content |-> content]

\* GeminiCLIService.isReady: set by the constructor, never reset
isReady == TRUE

\* --------------------------------------------------------------- Init
\* a WebSocket that has not connected yet: no userId, no validateSession
\* call pending, nothing sent to it
WsConns == 1..MaxWs
WsNew ==
  [state |-> "new", token |-> NoToken, userId |-> NoUser, validating |-> FALSE,
   chats |-> 0, sent |-> <<>>]

\* ---------------------------------------------------------------------------
\* The browser side: the SocketManager singleton of the Socket.IO client and
\* the useSocket hook of the WebSocket client.  client.socket is the state of
\* the socket the manager's field (the hook's ref) points to; client.orphans
\* counts the sockets it no longer points to whose handlers are still
\* attached; client.timers counts the setTimeout callbacks not yet run or
\* cleared and client.armed says that reconnectTimeout holds one of them.
\* ---------------------------------------------------------------------------
ClientKinds == {"SocketManager", "useSocket"}

Statuses == {"disconnected", "connecting", "connected", "error", "reconnecting"}

SocketStates == {"null", "connecting", "open", "closed"}

OrphanStates == {"connecting", "open", "closing"}

NoOrphans == [s \in OrphanStates |-> 0]

NoDelay == 0

\* private maxReconnectAttempts = 5; const maxReconnectAttempts = 5
maxReconnectAttempts == 5

Min(a, b) == IF a < b THEN a ELSE b

\* Math.min(1000 * Math.pow(2, n), 30000)
Backoff(n) == Min(1000 * 2^n, 30000)

\* the fields before the constructor body (a hook before its first effect)
ClientFields(kind, autoReconnect) ==
  [kind |-> kind, autoReconnect |-> autoReconnect, socket |-> "null",
   orphans |-> NoOrphans, reconnectAttempts |-> 0, timers |-> 0,
   armed |-> FALSE, delay |-> NoDelay, connectionStatus |-> "disconnected",
   isConnected |-> FALSE, isConnecting |-> FALSE, created |-> 0,
   manual |-> FALSE, last |-> "none"]

\* the socket the field points to stops being the one it points to while its
\* handlers stay attached
Orphaned(c) ==
  IF c.socket \in {"connecting", "open"}
  THEN [c EXCEPT !.orphans[c.socket] = @ + 1]
  ELSE c

setStatus(c, status) == [c EXCEPT !.connectionStatus = status]

clearReconnectTimeout(c) ==
  IF c.armed THEN [c EXCEPT !.timers = @ - 1, !.armed = FALSE] ELSE c

\* SocketManager.connect: nothing when the socket is connected; else a new
\* socket replaces the old one, whose listeners are left in place
connect(c) ==
  IF c.socket = "open" THEN c
  ELSE [clearReconnectTimeout(setStatus(Orphaned(c), "connecting"))
          EXCEPT !.socket = "connecting", !.created = @ + 1]

handleReconnection(c) ==
  IF c.reconnectAttempts < maxReconnectAttempts
  THEN [setStatus(c, "reconnecting")
          EXCEPT !.reconnectAttempts = @ + 1, !.timers = @ + 1, !.armed = TRUE,
                 !.delay = Backoff(c.reconnectAttempts + 1)]
  ELSE setStatus(c, "error")

\* SocketManager.disconnect: removeAllListeners() before socket.disconnect(),
\* so the socket raises no event in the manager any more
disconnect(c) ==
  [setStatus(clearReconnectTimeout(c), "disconnected") EXCEPT !.socket = "null"]

forceReconnect(c) == connect(disconnect([c EXCEPT !.reconnectAttempts = 0]))

\* useSocket's connect: nothing when the socket of the ref is OPEN
hookConnect(c) ==
  IF c.socket = "open" THEN c
  ELSE [Orphaned(c) EXCEPT !.isConnecting = TRUE, !.socket = "connecting",
                           !.created = @ + 1]

\* useSocket's disconnect: the timer of the ref is cleared and the socket is
\* closed with its handlers in place
hookDisconnect(c) ==
  LET d == clearReconnectTimeout(c)
      e == IF d.socket \in {"connecting", "open"}
           THEN [d EXCEPT !.orphans["closing"] = @ + 1]
           ELSE d
  IN  [e EXCEPT !.socket = "null", !.isConnected = FALSE, !.isConnecting = FALSE]

\* export const socketManager = new SocketManager(): the constructor connects
Constructed == [connect(ClientFields("SocketManager", TRUE)) EXCEPT !.last = "new"]

\* the hook after its first effect, called with a token
Mounted(autoReconnect) ==
  [hookConnect(ClientFields("useSocket", autoReconnect)) EXCEPT !.last = "effect"]

InitServer ==
  /\ conn = [c \in Conns |-> [state |-> "new", userId |-> NoUser, welcomed |-> FALSE]]
  /\ messageQueues = <<>>
  /\ processingUsers = {}
  /\ active = {}
  /\ scheduled = [u \in Users |-> 0]
  /\ procs = <<>>
  /\ transcript = <<>>
  /\ emitted = <<>>
  /\ enqueued = <<>>
  /\ chatCount = 0
  /\ cli = <<>>
  /\ rest = {}
  /\ ws = [c \in WsConns |-> WsNew]

\* the server with the page's Socket.IO client constructed
InitGateway == InitServer /\ client = Constructed

\* no session stored, no validateSession call made; impl is the class behind
\* the storage object
AuthIdle(impl) ==
  [impl |-> impl, pc |-> "idle", token |-> NoToken, session |-> NoUser,
   result |-> NoUser, raised |-> FALSE, calls |-> 0,
   wasExpired |-> FALSE, wasLoggedOut |-> FALSE,
   sessions |-> [t \in {} |-> NoUser], expired |-> {}, issued |-> {},
   loggedOut |-> {}]

\* an empty files table and no FileService call made yet
FsEmpty(impl) ==
  [impl |-> impl, files |-> <<>>, currentFileId |-> 1,
   last |-> [op |-> "none", caller |-> NoUser, owners |-> {}]]

\* export const storage = new MemStorage()
Init == InitGateway /\ auth = AuthIdle("mem") /\ fs = FsEmpty("mem")

\* the services run against either implementation of IStorage
AuthInit ==
  InitGateway /\ fs = FsEmpty("mem") /\ \E impl \in StorageImpls : auth = AuthIdle(impl)

FileInit ==
  InitGateway /\ auth = AuthIdle("mem") /\ \E impl \in StorageImpls : fs = FsEmpty(impl)


\* ------------------------------------------- processMessageQueue (routes.ts)
\* if (processingUsers.has(userId)) return;
AlreadyProcessing_Never(userId) == FALSE
AlreadyProcessing(userId) == userId \in processingUsers

\* queue.shift() takes the element at this index
ShiftIndex_Last(queue) == Len(queue)
ShiftIndex(queue) == 1

\* finally: if (remainingQueue.length > 0) setImmediate(...)
NeedsReschedule_Never(remainingQueue) == FALSE
NeedsReschedule(remainingQueue) == Len(remainingQueue) > 0

\* await storage.createChatMessage({content, sender: 'user', userId, metadata})
SaveUserMessage_Skipped(t, a) == t
SaveUserMessage(t, a) == Append(t, Record(a.userId, "user", a.id, a.content))

\* await storage.createChatMessage({content: response.message, sender: 'ai', ...})
SaveAIResponse_Skipped(t, a) == t
SaveAIResponse(t, a) == Append(t, Record(a.userId, "ai", a.id, a.response))

\* the synchronous head of processMessageQueue, called with the map as the
\* caller left it: the two early returns, processingUsers.add, queue.shift()
ProcessMessageQueue(userId, mq) ==
  LET queue == QueueOf(mq, userId) IN
  IF AlreadyProcessing(userId) \/ Len(queue) = 0
  THEN /\ messageQueues' = mq
       /\ UNCHANGED <<processingUsers, active>>
  ELSE LET i == ShiftIndex(queue)
           entry == queue[i]
       IN /\ processingUsers' = processingUsers \cup {userId}
          /\ messageQueues' = MapSet(mq, userId, RemoveAt(queue, i))
          /\ active' = active \cup
               {[id |-> entry.id, userId |-> userId, content |-> entry.content,
                 socket |-> entry.socket, pc |-> "saveUser", response |-> <<>>]}

\* finally { processingUsers.delete(userId); reschedule if entries remain }
Finally(a) ==
  /\ processingUsers' = processingUsers \ {a.userId}
  /\ active' = active \ {a}
  /\ scheduled' = [scheduled EXCEPT ![a.userId] =
       IF NeedsReschedule(QueueOf(messageQueues, a.userId)) THEN @ + 1 ELSE @]

\* catch (error) { the error goes to the socket of queue[0], if there is one }
CatchEmit_DeliversOutput(em, a) == Append(em, Event(a.socket, "ai_response", a.id))
CatchEmit(em, a) ==
  LET queue == QueueOf(messageQueues, a.userId) IN
  IF Len(queue) > 0 THEN Append(em, Event(queue[1].socket, "error", a.id)) ELSE em

\* the rejected await followed by catch and finally
CatchFinally(a) ==
  /\ emitted' = CatchEmit(emitted, a)
  /\ Finally(a)

ActivationOf(id) == {a \in active : a.id = id}

\* ------------------------------------------------ Socket.IO handlers
\* io.on('connection'): the handshake token is not looked at; the default user
\* is bound and the 'connected' welcome is emitted
Connect(c) ==
  /\ conn[c].state = "new"
  /\ \A d \in Conns : d < c => conn[d].state # "new"
  /\ conn' = [conn EXCEPT ![c] = [state |-> "open", userId |-> DefaultUserId,
                                   welcomed |-> TRUE]]
  /\ UNCHANGED <<messageQueues, processingUsers, active, scheduled, procs,
                 transcript, emitted, enqueued, chatCount>>
  /\ UNCHANGED outside

\* if (!content)
ContentMissing_Never(content) == FALSE
ContentMissing(content) == content = ""

\* socket.on('chat_message')
ChatMessage(c, content) ==
  /\ conn[c].state = "open"
  /\ chatCount < MaxChat
  /\ chatCount' = chatCount + 1
  /\ IF ContentMissing(content)
     THEN /\ emitted' = Append(emitted, Event(c, "error", NoReq))
          /\ UNCHANGED <<messageQueues, processingUsers, active, enqueued>>
     ELSE LET userId == conn[c].userId
              entry == [id |-> Len(enqueued) + 1, content |-> content, socket |-> c]
              pushed == MapSet(messageQueues, userId,
                               Append(QueueOf(messageQueues, userId), entry))
          IN /\ enqueued' = Append(enqueued, entry)
             /\ ProcessMessageQueue(userId, pushed)
             /\ UNCHANGED emitted
  /\ UNCHANGED <<conn, scheduled, procs, transcript>>
  /\ UNCHANGED outside

\* queue.filter(item => item.socket.id !== socket.id)
filteredQueue_Empty(queue, c) == <<>>
filteredQueue(queue, c) == SelectSeq(queue, LAMBDA item : item.socket # c)

\* socket.on('disconnect'): only the Map entry of the user is rewritten; the
\* activation that awaits sendMessage and the child process are left alone
Disconnect_Cancels(c) ==
  /\ conn[c].state = "open"
  /\ conn' = [conn EXCEPT ![c].state = "closed"]
  /\ active' = {a \in active : a.socket # c}
  /\ UNCHANGED <<messageQueues, processingUsers, scheduled, procs, transcript,
                 emitted, enqueued, chatCount>>
  /\ UNCHANGED outside
Disconnect(c) ==
  /\ conn[c].state = "open"
  /\ conn' = [conn EXCEPT ![c].state = "closed"]
  /\ LET userId == conn[c].userId IN
     IF userId \in DOMAIN messageQueues
     THEN LET fq == filteredQueue(messageQueues[userId], c) IN
          messageQueues' = IF Len(fq) = 0 THEN MapDelete(messageQueues, userId)
                           ELSE MapSet(messageQueues, userId, fq)
     ELSE UNCHANGED messageQueues
  /\ UNCHANGED <<processingUsers, active, scheduled, procs, transcript,
                 emitted, enqueued, chatCount>>
  /\ UNCHANGED outside

\* the callback of setImmediate(() => processMessageQueue(userId))
RunImmediate(userId) ==
  /\ scheduled[userId] > 0
  /\ scheduled' = [scheduled EXCEPT ![userId] = @ - 1]
  /\ ProcessMessageQueue(userId, messageQueues)
  /\ UNCHANGED <<conn, procs, transcript, emitted, enqueued, chatCount>>
  /\ UNCHANGED outside

\* --------------------------------- continuations of processMessageQueue
\* the user message is stored, then geminiCLIService.sendMessage is called:
\* it rejects when not ready, else spawns the process and arms the timeout
SendMessageCalled(a) ==
  /\ a \in active /\ a.pc = "saveUser"
  /\ transcript' = SaveUserMessage(transcript, a)
  /\ IF isReady
     THEN /\ procs' = MapSet(procs, a.id,
                 [completed |-> FALSE, outcome |-> "pending"])
          /\ active' = (active \ {a}) \cup {[a EXCEPT !.pc = "invoke"]}
          /\ UNCHANGED <<processingUsers, scheduled, emitted>>
     ELSE /\ UNCHANGED procs
          /\ CatchFinally(a)
  /\ UNCHANGED <<conn, messageQueues, enqueued, chatCount>>

\* the same step where the child process is not followed
SaveUserDone(a) ==
  /\ SendMessageCalled(a)
  /\ UNCHANGED outside

\* the promise of sendMessage rejects: catch and finally run at once
Rejected(id) ==
  \E a \in ActivationOf(id) : CatchFinally(a)

\* the promise resolves with output.trim(): the ai message is being stored
Resolved(id, out) ==
  /\ \E a \in ActivationOf(id) :
       active' = (active \ {a}) \cup {[a EXCEPT !.pc = "saveAI", !.response = Trim(out)]}
  /\ UNCHANGED <<processingUsers, scheduled, emitted>>

\* cliProcess.on('close', code) before any other terminal event:
\* if (processCompleted) return; otherwise the code and stdout decide
ProcClose(id, code, out) ==
  /\ id \in DOMAIN procs /\ ~procs[id].completed
  /\ IF code = 0 /\ Trim(out) # <<>>
     THEN /\ procs' = [procs EXCEPT ![id].completed = TRUE, ![id].outcome = "resolved"]
          /\ Resolved(id, out)
     ELSE /\ procs' = [procs EXCEPT ![id].completed = TRUE, ![id].outcome = "rejected"]
          /\ Rejected(id)
  /\ UNCHANGED <<conn, messageQueues, transcript, enqueued, chatCount>>
  /\ UNCHANGED outside

\* cliProcess.on('error') before any other terminal event
ProcError(id) ==
  /\ id \in DOMAIN procs /\ ~procs[id].completed
  /\ procs' = [procs EXCEPT ![id].completed = TRUE, ![id].outcome = "rejected"]
  /\ Rejected(id)
  /\ UNCHANGED <<conn, messageQueues, transcript, enqueued, chatCount>>
  /\ UNCHANGED outside

\* the setTimeout callback with processCompleted still false: the process is
\* sent the kill signal and the promise rejects with 'Response timeout'; this
\* is what processMessageQueue sees of it
TimeoutRejects(id) ==
  /\ id \in DOMAIN procs /\ ~procs[id].completed
  /\ procs' = [procs EXCEPT ![id].completed = TRUE, ![id].outcome = "rejected"]
  /\ Rejected(id)
  /\ UNCHANGED <<conn, messageQueues, transcript, enqueued, chatCount>>

\* the same step where the child process is not followed
Timeout(id) ==
  /\ TimeoutRejects(id)
  /\ UNCHANGED outside

\* socket.emit('ai_response', ...) on the socket taken from the queue entry
AiResponseEvents_Broadcast(a) ==
  LET live == SelectSeq([c \in Conns |-> c],
                        LAMBDA c : conn[c].state = "open" /\ conn[c].userId = a.userId)
  IN [i \in 1..Len(live) |-> Event(live[i], "ai_response", a.id)]
AiResponseEvents(a) == <<Event(a.socket, "ai_response", a.id)>>

\* the ai message is stored, ai_response goes to the sender's socket, finally
SaveAIDone(a) ==
  /\ a \in active /\ a.pc = "saveAI"
  /\ transcript' = SaveAIResponse(transcript, a)
  /\ emitted' = emitted \o AiResponseEvents(a)
  /\ Finally(a)
  /\ UNCHANGED <<conn, messageQueues, procs, enqueued, chatCount>>
  /\ UNCHANGED outside

\* ----------------------------------------------------------- Next, Spec
Next ==
  \/ \E c \in Conns : Connect(c)
  \/ \E c \in Conns, content \in Contents : ChatMessage(c, content)
  \/ \E c \in Conns : Disconnect(c)
  \/ \E u \in Users : RunImmediate(u)
  \/ \E a \in active : SaveUserDone(a)
  \/ \E id \in 1..MaxChat, code \in ExitCodes, out \in Outputs : ProcClose(id, code, out)
  \/ \E id \in 1..MaxChat : ProcError(id)
  \/ \E id \in 1..MaxChat : Timeout(id)
  \/ \E a \in active : SaveAIDone(a)

Spec == Init /\ [][Next]_vars

\* the timers fire, the process events and the storage calls complete, the
\* setImmediate callbacks run; clients are free to do nothing
Fairness ==
  /\ \A u \in Users : WF_vars(RunImmediate(u))
  /\ WF_vars(\E a \in active : SaveUserDone(a))
  /\ WF_vars(\E a \in active : SaveAIDone(a))
  /\ \A id \in 1..MaxChat : WF_vars(Timeout(id))

FairSpec == Spec /\ Fairness

\* ------------------------------ GeminiCLIService.sendMessage in detail
\* the state of one call after spawn(): the child process, the two buffers,
\* processCompleted, the armed timer, and what resolve/reject were called with
Spawned ==
  [alive |-> TRUE, closed |-> FALSE, errored |-> FALSE, killed |-> FALSE,
   timer |-> TRUE, processCompleted |-> FALSE,
   output |-> <<>>, errorOutput |-> <<>>, settled |-> <<>>, first |-> <<>>]

Resolve(value) == [kind |-> "resolve", value |-> value]
Reject(reason) == [kind |-> "reject", value |-> <<reason>>]

\* if (code === 0 && output.trim())
IsSuccess_AnyOutput(code, output) == code = 0
IsSuccess(code, output) == code = 0 /\ Trim(output) # <<>>

\* the settlement made by the close handler: output.trim() on success, else
\* errorOutput || `Process exited with code ${code}`
CloseSettlement(p, code) ==
  IF IsSuccess(code, p.output)
  THEN Resolve(Trim(p.output))
  ELSE Reject(IF p.errorOutput # <<>> THEN "stderr" ELSE "exit")

\* the first terminal event of a call, with stdout as it was then
Terminal(p, type, code) ==
  IF p.first = <<>> THEN <<[type |-> type, code |-> code, output |-> p.output]>>
  ELSE p.first

\* cliProcess.on('close', (code) => { if (processCompleted) return; ... })
OnClose_Unguarded(p, code) ==
  [p EXCEPT !.alive = FALSE, !.closed = TRUE, !.first = Terminal(p, "close", code),
            !.processCompleted = TRUE,
            !.settled = Append(@, CloseSettlement(p, code))]
OnClose(p, code) ==
  LET q == [p EXCEPT !.alive = FALSE, !.closed = TRUE,
                     !.first = Terminal(p, "close", code)]
  IN IF p.processCompleted THEN q
     ELSE [q EXCEPT !.processCompleted = TRUE,
                    !.settled = Append(@, CloseSettlement(p, code))]

\* cliProcess.on('error', (error) => { if (processCompleted) return; ... })
OnError(p) ==
  LET q == [p EXCEPT !.alive = FALSE, !.errored = TRUE,
                     !.first = Terminal(p, "error", NullCode)]
  IN IF p.processCompleted THEN q
     ELSE [q EXCEPT !.processCompleted = TRUE,
                    !.settled = Append(@, Reject("spawn"))]

\* cliProcess.kill() in the timer callback: the signal is sent
Kill_Skipped(p) == p
Kill(p) == [p EXCEPT !.killed = TRUE]

\* setTimeout(() => { if (!processCompleted) { ...kill(); reject(...) } }, 60000)
OnTimeout_Silent(p) == [p EXCEPT !.timer = FALSE]
OnTimeout(p) ==
  LET q == [p EXCEPT !.timer = FALSE, !.first = Terminal(p, "timeout", NullCode)]
  IN IF p.processCompleted THEN q
     ELSE [Kill(q) EXCEPT !.processCompleted = TRUE,
                          !.settled = Append(@, Reject("timeout"))]

gateway == <<conn, messageQueues, processingUsers, active, scheduled, procs,
             transcript, emitted, enqueued, chatCount>>

\* sendMessage(message) called directly: isReady holds, the process is spawned
CliSend(id) ==
  /\ id \notin DOMAIN cli /\ id = Cardinality(DOMAIN cli) + 1
  /\ isReady
  /\ cli' = MapSet(cli, id, Spawned)
  /\ UNCHANGED <<gateway, rest, auth, fs, ws, client>>

\* cliProcess.stdout.on('data'): output += chunk
StdoutData(id, chunk) ==
  /\ id \in DOMAIN cli /\ cli[id].alive
  /\ Len(cli[id].output) < MaxOut
  /\ cli' = [cli EXCEPT ![id].output = @ \o chunk]
  /\ UNCHANGED <<gateway, rest, auth, fs, ws, client>>

\* cliProcess.stderr.on('data'): errorOutput += chunk
StderrData(id) ==
  /\ id \in DOMAIN cli /\ cli[id].alive
  /\ cli[id].errorOutput = <<>>
  /\ cli' = [cli EXCEPT ![id].errorOutput = <<"e">>]
  /\ UNCHANGED <<gateway, rest, auth, fs, ws, client>>

\* the 'close' event: the process has ended, by itself or by a signal, or the
\* failed spawn is reported closed
CliClose(id, code) ==
  /\ id \in DOMAIN cli /\ ~cli[id].closed
  /\ cli' = [cli EXCEPT ![id] = OnClose(@, code)]
  /\ UNCHANGED <<gateway, rest, auth, fs, ws, client>>

\* the 'error' event of a spawn that failed: there is no process
CliError(id) ==
  /\ id \in DOMAIN cli /\ cli[id].alive /\ ~cli[id].killed
  /\ cli[id].output = <<>> /\ cli[id].errorOutput = <<>>
  /\ cli' = [cli EXCEPT ![id] = OnError(@)]
  /\ UNCHANGED <<gateway, rest, auth, fs, ws, client>>

\* the timer set by sendMessage fires; nothing ever clears it
CliTimeout(id) ==
  /\ id \in DOMAIN cli /\ cli[id].timer
  /\ cli' = [cli EXCEPT ![id] = OnTimeout(@)]
  /\ UNCHANGED <<gateway, rest, auth, fs, ws, client>>

CliNext ==
  \/ \E id \in Calls : CliSend(id)
  \/ \E id \in Calls, chunk \in Chunks : StdoutData(id, chunk)
  \/ \E id \in Calls : StderrData(id)
  \/ \E id \in Calls, code \in CloseCodes : CliClose(id, code)
  \/ \E id \in Calls : CliError(id)
  \/ \E id \in Calls : CliTimeout(id)

CliSpec == Init /\ [][CliNext]_vars

\* ------------------- the gateway with a CLI process that never exits
\* processMessageQueue calls sendMessage and the process is spawned
HangSpawn(a) ==
  /\ SendMessageCalled(a)
  /\ cli' = MapSet(cli, a.id, Spawned)
  /\ UNCHANGED <<rest, auth, fs, ws, client>>

\* the timer of the call fires while processMessageQueue awaits it
HangTimeout(id) ==
  /\ id \in DOMAIN cli /\ cli[id].timer
  /\ cli' = [cli EXCEPT ![id] = OnTimeout(@)]
  /\ TimeoutRejects(id)
  /\ UNCHANGED <<rest, auth, fs, ws, client>>

\* the process ends only after cliProcess.kill(): 'close' with code null
KilledClose(id) ==
  /\ id \in DOMAIN cli /\ cli[id].killed
  /\ CliClose(id, NullCode)

HangNext ==
  \/ \E c \in Conns : Connect(c)
  \/ \E c \in Conns, content \in Contents : ChatMessage(c, content)
  \/ \E c \in Conns : Disconnect(c)
  \/ \E u \in Users : RunImmediate(u)
  \/ \E a \in active : HangSpawn(a)
  \/ \E id \in 1..MaxChat : HangTimeout(id)
  \/ \E id \in 1..MaxChat : KilledClose(id)

HangSpec == Init /\ [][HangNext]_vars

\* the timers fire, the storage calls complete, the setImmediate callbacks run
HangFairness ==
  /\ \A u \in Users : WF_vars(RunImmediate(u))
  /\ WF_vars(\E a \in active : HangSpawn(a))
  /\ \A id \in 1..MaxChat : WF_vars(HangTimeout(id))

HangFairSpec == HangSpec /\ HangFairness

\* ------------------------------------------ AuthService.validateSession
\* auth.sessions is the session table (token -> userId), auth.expired the
\* tokens whose expiresAt has passed, auth.issued the tokens generated so far
\* and auth.loggedOut those whose logout has deleted the session; the user
\* table holds the one user
\* catch (error) { console.error(...); return null; }
Catch_Rethrows(a) == [a EXCEPT !.pc = "threw", !.raised = TRUE]
Catch(a) == [a EXCEPT !.pc = "returned", !.result = NoUser, !.raised = TRUE]

Return(a, user) == [a EXCEPT !.pc = "returned", !.result = user]

\* AuthService.authenticateWithGoogle: generateToken() yields a fresh token,
\* storage.createSession stores it for the user
CreateSession(t) ==
  /\ t \in ValidTokens /\ t \notin auth.issued
  /\ auth' = [auth EXCEPT !.sessions = MapSet(@, t, DefaultUserId),
                          !.issued = @ \cup {t}]
  /\ UNCHANGED <<gateway, cli, rest, fs, ws, client>>

\* 24 hours pass: expiresAt of the session is now in the past
Expire(t) ==
  /\ t \in DOMAIN auth.sessions /\ t \notin auth.expired
  /\ auth' = [auth EXCEPT !.expired = @ \cup {t}]
  /\ UNCHANGED <<gateway, cli, rest, fs, ws, client>>

\* validateSession(token) up to its first await: if (!token) return null
ValidateSession(t) ==
  /\ auth.pc = "idle" /\ auth.calls < MaxAuth
  /\ LET a == [auth EXCEPT !.token = t, !.calls = @ + 1, !.session = NoUser,
                            !.result = NoUser, !.raised = FALSE,
                            !.wasExpired = t \in auth.expired,
                            !.wasLoggedOut = t \in auth.loggedOut]
     IN auth' = IF t = NoToken THEN Return(a, NoUser)
                ELSE [a EXCEPT !.pc = "getSession"]
  /\ UNCHANGED <<gateway, cli, rest, fs, ws, client>>

\* MemStorage.getSession: an expired session is deleted and undefined is
\* returned
MemGetSession(a) ==
  IF a.token \in DOMAIN a.sessions /\ a.token \in a.expired
  THEN [a EXCEPT !.sessions = MapDelete(@, a.token)]
  ELSE a

\* DatabaseStorage.getSession: select ... where token = ?, nothing is deleted
DbGetSession(a) == a

\* what getSession leaves in the table
GetSession(a) == IF a.impl = "mem" THEN MemGetSession(a) ELSE DbGetSession(a)

\* storage.getSession returns; then if (!session) return null
GetSessionReturns ==
  /\ auth.pc = "getSession"
  /\ LET a == GetSession(auth) IN
     auth' = IF a.token \notin DOMAIN a.sessions THEN Return(a, NoUser)
             ELSE [a EXCEPT !.pc = "getUser", !.session = a.sessions[a.token]]
  /\ UNCHANGED <<gateway, cli, rest, fs, ws, client>>

\* storage.getSession raises
GetSessionRaises ==
  /\ auth.pc = "getSession"
  /\ auth' = Catch(auth)
  /\ UNCHANGED <<gateway, cli, rest, fs, ws, client>>

\* storage.getUser returns: return user || null
GetUserReturns ==
  /\ auth.pc = "getUser"
  /\ auth' = Return(auth, IF auth.session \in Users THEN auth.session ELSE NoUser)
  /\ UNCHANGED <<gateway, cli, rest, fs, ws, client>>

\* storage.getUser raises
GetUserRaises ==
  /\ auth.pc = "getUser"
  /\ auth' = Catch(auth)
  /\ UNCHANGED <<gateway, cli, rest, fs, ws, client>>

\* the caller has the result
Returned ==
  /\ auth.pc = "returned"
  /\ auth' = [auth EXCEPT !.pc = "idle"]
  /\ UNCHANGED <<gateway, cli, rest, fs, ws, client>>

\* storage.deleteSession(token): sessions.delete(token) / delete ... where
\* token = ?
DeleteSession_Kept(sessions, t) == sessions
DeleteSession(sessions, t) == MapDelete(sessions, t)

\* AuthService.logout(token): return await storage.deleteSession(token)
Logout(t) ==
  /\ t \in auth.issued /\ t \notin auth.loggedOut
  /\ auth' = [auth EXCEPT !.sessions = DeleteSession(@, t),
                          !.loggedOut = @ \cup {t}]
  /\ UNCHANGED <<gateway, cli, rest, fs, ws, client>>

AuthNext ==
  \/ \E t \in Tokens : CreateSession(t)
  \/ \E t \in Tokens : Expire(t)
  \/ \E t \in Tokens : ValidateSession(t)
  \/ GetSessionReturns
  \/ GetSessionRaises
  \/ GetUserReturns
  \/ GetUserRaises
  \/ Returned
  \/ \E t \in Tokens : Logout(t)

AuthSpec == AuthInit /\ [][AuthNext]_vars

\* ---------------------------------------------------------- FileService
\* fs.files is the files table (id -> [userId, parentId, type, content]);
\* fs.last tells who made the last FileService call and whose files it
\* returned or changed
OwnersOf(files, ids) == {files[id].userId : id \in ids}

Called(op, caller, owners) == [op |-> op, caller |-> caller, owners |-> owners]

\* MemStorage.getFiles: file.userId === userId && file.parentId === (parentId || null)
MemGetFiles(files, userId, parentId) ==
  {id \in DOMAIN files : files[id].userId = userId /\ files[id].parentId = parentId}

\* DatabaseStorage.getFiles: where parentId = ? if a parentId is given, else
\* where userId = ?
DbGetFiles(files, userId, parentId) ==
  IF parentId # NoFile
  THEN {id \in DOMAIN files : files[id].parentId = parentId}
  ELSE {id \in DOMAIN files : files[id].userId = userId}

StorageGetFiles(impl, files, userId, parentId) ==
  IF impl = "mem" THEN MemGetFiles(files, userId, parentId)
  ELSE DbGetFiles(files, userId, parentId)

\* if (file && file.userId !== userId) return undefined  (getFile), and
\* if (!file || file.userId !== userId) return  (updateFile, deleteFile)
Owned_Any(files, id, userId) == id \in DOMAIN files
Owned(files, id, userId) == id \in DOMAIN files /\ files[id].userId = userId

\* FileService.createFile: the parent is a folder of the caller found by its
\* path, or none; storage.createFile hands out currentFileId++
CreateFile(userId, type, parentId) ==
  /\ fs.currentFileId <= MaxFiles
  /\ \/ parentId = NoFile
     \/ Owned(fs.files, parentId, userId) /\ fs.files[parentId].type = "folder"
  /\ fs' = [fs EXCEPT
       !.files = MapSet(@, fs.currentFileId,
                        [userId |-> userId, parentId |-> parentId, type |-> type,
                         content |-> "a"]),
       !.currentFileId = @ + 1,
       !.last = Called("createFile", userId, {userId})]
  /\ UNCHANGED <<gateway, cli, rest, auth, ws, client>>

\* FileService.getFiles(userId, parentId)
GetFiles(userId, parentId) ==
  /\ parentId \in DOMAIN fs.files \cup {NoFile}
  /\ LET found == StorageGetFiles(fs.impl, fs.files, userId, parentId) IN
     fs' = [fs EXCEPT !.last = Called("getFiles", userId, OwnersOf(fs.files, found))]
  /\ UNCHANGED <<gateway, cli, rest, auth, ws, client>>

\* FileService.getFile(id, userId)
GetFile(id, userId) ==
  /\ id \in DOMAIN fs.files
  /\ LET found == IF Owned(fs.files, id, userId) THEN {id} ELSE {} IN
     fs' = [fs EXCEPT !.last = Called("getFile", userId, OwnersOf(fs.files, found))]
  /\ UNCHANGED <<gateway, cli, rest, auth, ws, client>>

\* FileService.updateFile(id, userId, {content})
UpdateFile(id, userId) ==
  /\ id \in DOMAIN fs.files
  /\ IF Owned(fs.files, id, userId)
     THEN fs' = [fs EXCEPT !.files[id].content = "b",
                          !.last = Called("updateFile", userId, {fs.files[id].userId})]
     ELSE fs' = [fs EXCEPT !.last = Called("updateFile", userId, {})]
  /\ UNCHANGED <<gateway, cli, rest, auth, ws, client>>

\* the ids that deleteFile(id, userId) deletes: nothing if the file is not the
\* caller's; for a folder first what deleteFile deletes of each child that
\* getFiles(userId, id) lists, then the folder itself
RECURSIVE Deleted(_, _, _, _)
Deleted(impl, files, id, userId) ==
  IF ~Owned(files, id, userId) THEN {}
  ELSE {id} \cup
       (IF files[id].type = "folder"
        THEN UNION {Deleted(impl, files, child, userId) :
                      child \in StorageGetFiles(impl, files, userId, id)}
        ELSE {})

\* FileService.deleteFile(id, userId)
DeleteFile(id, userId) ==
  /\ id \in DOMAIN fs.files
  /\ LET gone == Deleted(fs.impl, fs.files, id, userId) IN
     fs' = [fs EXCEPT
       !.files = [k \in DOMAIN fs.files \ gone |-> fs.files[k]],
       !.last = Called("deleteFile", userId, OwnersOf(fs.files, gone))]
  /\ UNCHANGED <<gateway, cli, rest, auth, ws, client>>

FileNext ==
  \/ \E u \in Owners, type \in {"file", "folder"}, parent \in 0..MaxFiles :
       CreateFile(u, type, parent)
  \/ \E u \in Owners, parent \in 0..MaxFiles : GetFiles(u, parent)
  \/ \E u \in Owners, id \in 1..MaxFiles : GetFile(id, u)
  \/ \E u \in Owners, id \in 1..MaxFiles : UpdateFile(id, u)
  \/ \E u \in Owners, id \in 1..MaxFiles : DeleteFile(id, u)

FileSpec == FileInit /\ [][FileNext]_vars

\* ------------------------------------------------ WebSocket gateway
WsMessageTypes == {"chat_message", "ping", "other"}

\* the messages received so far: each was answered or is a chat in flight;
\* the welcome of a connection answers no message
WsReceived ==
  Cardinality({<<c, i>> \in WsConns \X (1..(MaxWsMsgs + 1)) :
                 i <= Len(ws[c].sent) + ws[c].chats})
    - Cardinality({c \in WsConns : ws[c].state # "new"})

\* ws.send(...) on a socket that may have closed since
WsSend(w, what) == [w EXCEPT !.sent = Append(@, what)]

\* wss.on('connection'): the token of the query string is handed to
\* validateSession, whose result arrives later; the handlers are registered
\* and the welcome is sent at once
WsConnect(c, token) ==
  /\ ws[c].state = "new"
  /\ \A d \in WsConns : d < c => ws[d].state # "new"
  /\ ws' = [ws EXCEPT ![c] =
       WsSend([@ EXCEPT !.state = "open", !.token = token,
                        !.validating = token # NoToken], "connected")]
  /\ UNCHANGED <<gateway, cli, rest, auth, fs, client>>

\* validateSession(token).then(user => { if (user) ws.userId = user.id })
WsValidated(c) ==
  /\ ws[c].validating
  /\ ws' = [ws EXCEPT ![c].validating = FALSE,
                      ![c].userId = IF ws[c].token \in ValidTokens
                                    THEN DefaultUserId ELSE @]
  /\ UNCHANGED <<gateway, cli, rest, auth, fs, client>>

\* ws.on('message'): without ws.userId the answer is 'Not authenticated';
\* a chat_message awaits geminiService.sendMessage, ping is answered by pong,
\* any other type by 'Unknown message type'
WsMessage(c, type) ==
  /\ ws[c].state = "open"
  /\ WsReceived < MaxWsMsgs
  /\ ws' = [ws EXCEPT ![c] =
       IF ws[c].userId = NoUser THEN WsSend(@, "not_authenticated")
       ELSE IF type = "chat_message" THEN [@ EXCEPT !.chats = @ + 1]
       ELSE IF type = "ping" THEN WsSend(@, "pong")
       ELSE WsSend(@, "unknown_type")]
  /\ UNCHANGED <<gateway, cli, rest, auth, fs, client>>

\* sendMessage resolves: the user message and the reply are stored, then
\* ai_response is sent
WsChatResolved(c, out) ==
  /\ ws[c].chats > 0 /\ Trim(out) # <<>>
  /\ transcript' = transcript \o
       <<Record(ws[c].userId, "user", NoReq, "hello"),
         Record(ws[c].userId, "ai", NoReq, Trim(out))>>
  /\ ws' = [ws EXCEPT ![c] = WsSend([@ EXCEPT !.chats = @ - 1], "ai_response")]
  /\ UNCHANGED <<conn, messageQueues, processingUsers, active, scheduled, procs,
                 emitted, enqueued, chatCount, cli, rest, auth, fs, client>>

\* sendMessage rejects: catch sends 'Message processing failed'
WsChatRejected(c) ==
  /\ ws[c].chats > 0
  /\ ws' = [ws EXCEPT ![c] = WsSend([@ EXCEPT !.chats = @ - 1], "failed")]
  /\ UNCHANGED <<gateway, cli, rest, auth, fs, client>>

\* ws.on('close')
WsClose(c) ==
  /\ ws[c].state = "open"
  /\ ws' = [ws EXCEPT ![c].state = "closed"]
  /\ UNCHANGED <<gateway, cli, rest, auth, fs, client>>

WsNext ==
  \/ \E c \in WsConns, token \in Tokens : WsConnect(c, token)
  \/ \E c \in WsConns : WsValidated(c)
  \/ \E c \in WsConns, type \in WsMessageTypes : WsMessage(c, type)
  \/ \E c \in WsConns, out \in Outputs : WsChatResolved(c, out)
  \/ \E c \in WsConns : WsChatRejected(c)
  \/ \E c \in WsConns : WsClose(c)

WsSpec == Init /\ [][WsNext]_vars

\* ------------------------------------------- POST /api/gemini/chat
\* requireAuth answers 401 without req.user and the handler answers 400
\* without a message; otherwise the user message is stored and
\* geminiCLIService.sendMessage is called directly: no queue, no in-flight
\* flag. storage is the MemStorage instance, whose createChatMessage does no
\* I/O, so the handler reaches the call before any other event is handled
RestChat(authenticated, message) ==
  /\ chatCount < MaxChat
  /\ IF authenticated /\ message # ""
     THEN /\ chatCount' = chatCount + 1
          /\ transcript' = Append(transcript,
                                  Record(DefaultUserId, "user", NoReq, message))
          /\ rest' = rest \cup {[n |-> chatCount + 1, userId |-> DefaultUserId]}
     ELSE UNCHANGED <<chatCount, transcript, rest>>
  /\ UNCHANGED <<conn, messageQueues, processingUsers, active, scheduled, procs,
                 emitted, enqueued, cli, auth, fs, ws, client>>

\* the process of the call closes: on success the reply is stored and
\* res.json(response) is sent, else the catch block answers 500
RestClose(r, code, out) ==
  /\ r \in rest
  /\ transcript' = IF IsSuccess(code, out)
                   THEN Append(transcript, Record(r.userId, "ai", NoReq, Trim(out)))
                   ELSE transcript
  /\ rest' = rest \ {r}
  /\ UNCHANGED <<conn, messageQueues, processingUsers, active, scheduled, procs,
                 emitted, enqueued, chatCount, cli, auth, fs, ws, client>>

\* the spawn fails or the timer of the call fires: the catch block answers 500
RestRejected(r) ==
  /\ r \in rest
  /\ rest' = rest \ {r}
  /\ UNCHANGED <<gateway, cli, auth, fs, ws, client>>

ApiNext ==
  \/ Next
  \/ \E authenticated \in BOOLEAN, message \in Contents : RestChat(authenticated, message)
  \/ \E r \in rest, code \in ExitCodes, out \in Outputs : RestClose(r, code, out)
  \/ \E r \in rest : RestRejected(r)

ApiSpec == Init /\ [][ApiNext]_vars

\* the sockets whose handlers can still run: "current" is the one the field
\* points to, the others are orphans
Emitters(c, from) ==
  {e \in {"current"} \cup OrphanStates :
     IF e = "current" THEN c.socket \in from
     ELSE e \in from /\ c.orphans[e] > 0}

\* the emitting socket moves to state to ("closed" sockets raise nothing more)
Moved(c, e, to) ==
  IF e = "current" THEN [c EXCEPT !.socket = to]
  ELSE IF to \in OrphanStates
       THEN [c EXCEPT !.orphans[e] = @ - 1, !.orphans[to] = @ + 1]
       ELSE [c EXCEPT !.orphans[e] = @ - 1]

IsManager == client.kind = "SocketManager"

IsHook == client.kind = "useSocket"

CanCreate == client.created < MaxSockets

ClientStep(c, op) ==
  /\ client' = [c EXCEPT !.last = op]
  /\ UNCHANGED <<gateway, cli, rest, auth, fs, ws>>

\* socket.on('connect')
OnConnect(e) ==
  /\ IsManager
  /\ e \in Emitters(client, {"connecting"})
  /\ ClientStep([setStatus(Moved(client, e, "open"), "connected")
                   EXCEPT !.reconnectAttempts = 0], "connect")

\* socket.on('error'): an error event sent by the server
OnServerError(e) ==
  /\ IsManager
  /\ e \in Emitters(client, {"open"})
  /\ ClientStep(setStatus(client, "error"), "error")

\* socket.on('connect_error')
OnConnectError(e) ==
  /\ IsManager
  /\ e \in Emitters(client, {"connecting"})
  /\ ClientStep(handleReconnection(setStatus(Moved(client, e, "closed"), "error")),
                "connect_error")

\* socket.on('disconnect') with a reason other than 'io client disconnect':
\* that reason is raised by socket.disconnect() alone, which the manager calls
\* after removing the listeners
OnDisconnect(e) ==
  /\ IsManager
  /\ e \in Emitters(client, {"open"})
  /\ ClientStep(handleReconnection(setStatus(Moved(client, e, "closed"),
                                             "disconnected")),
                "disconnect")

\* a pending setTimeout callback runs; which says whether it is the one
\* reconnectTimeout holds
Fires(c, held) ==
  /\ c.timers > 0
  /\ IF held THEN c.armed ELSE c.timers > (IF c.armed THEN 1 ELSE 0)

Fired(c, held) ==
  [c EXCEPT !.timers = @ - 1, !.armed = IF held THEN FALSE ELSE @]

\* setTimeout(() => this.connect(), delay)
ReconnectTimeout(held) ==
  /\ IsManager
  /\ Fires(client, held)
  /\ CanCreate \/ client.socket = "open"
  /\ ClientStep(connect(Fired(client, held)), "timeout")

\* socketManager.disconnect() and destroy()
CallDisconnect ==
  /\ IsManager
  /\ ClientStep([disconnect(client) EXCEPT !.manual = TRUE], "disconnect()")

\* socketManager.forceReconnect()
CallForceReconnect ==
  /\ IsManager
  /\ CanCreate
  /\ ClientStep([forceReconnect(client) EXCEPT !.manual = FALSE],
                "forceReconnect()")

\* socket.onopen
HookOpen(e) ==
  /\ IsHook
  /\ e \in Emitters(client, {"connecting"})
  /\ ClientStep([Moved(client, e, "open")
                   EXCEPT !.isConnected = TRUE, !.isConnecting = FALSE,
                          !.reconnectAttempts = 0], "onopen")

\* socket.onclose of socket e: the ref is set to null whichever socket closed
onclose(c, e) ==
  LET gone == Moved(c, e, "closed")
      d == [Orphaned(gone) EXCEPT !.socket = "null", !.isConnected = FALSE,
                                  !.isConnecting = FALSE]
  IN  IF d.autoReconnect /\ d.reconnectAttempts < maxReconnectAttempts
      THEN [d EXCEPT !.timers = @ + 1, !.armed = TRUE,
                     !.delay = Backoff(d.reconnectAttempts)]
      ELSE d

\* the close event of a socket: the connection failed or dropped, or the
\* close() of disconnect completed
HookClose(e) ==
  /\ IsHook
  /\ e \in Emitters(client, {"connecting", "open", "closing"})
  /\ ClientStep(onclose(client, e), "onclose")

\* setTimeout(() => { reconnectAttempts.current++; connect(); }, delay)
HookTimeout(held) ==
  /\ IsHook
  /\ Fires(client, held)
  /\ CanCreate \/ client.socket = "open"
  /\ ClientStep(hookConnect([Fired(client, held) EXCEPT !.reconnectAttempts = @ + 1]),
                "timeout")

\* the connect the hook returns
HookCallConnect ==
  /\ IsHook
  /\ CanCreate
  /\ client.socket # "open"
  /\ ClientStep([hookConnect(client) EXCEPT !.manual = FALSE], "connect()")

\* the disconnect the hook returns, also the cleanup of its effect on unmount
HookCallDisconnect ==
  /\ IsHook
  /\ ClientStep([hookDisconnect(client) EXCEPT !.manual = TRUE], "disconnect()")

\* the effect runs again: its cleanup calls disconnect(), its body connect()
HookEffect ==
  /\ IsHook
  /\ CanCreate
  /\ ClientStep([hookConnect(hookDisconnect(client)) EXCEPT !.manual = FALSE],
                "effect")

ClientNext ==
  \/ \E e \in {"current"} \cup OrphanStates :
       \/ OnConnect(e)
       \/ OnServerError(e)
       \/ OnConnectError(e)
       \/ OnDisconnect(e)
       \/ HookOpen(e)
       \/ HookClose(e)
  \/ \E held \in BOOLEAN : ReconnectTimeout(held) \/ HookTimeout(held)
  \/ CallDisconnect
  \/ CallForceReconnect
  \/ HookCallConnect
  \/ HookCallDisconnect
  \/ HookEffect

\* either client, constructed (mounted with a token) in the page
ClientInit ==
  /\ InitServer
  /\ auth = AuthIdle("mem")
  /\ fs = FsEmpty("mem")
  /\ \/ client = Constructed
     \/ \E autoReconnect \in BOOLEAN : client = Mounted(autoReconnect)

ClientSpec == ClientInit /\ [][ClientNext]_vars

TypeOK ==
  /\ \A c \in Conns : conn[c].state \in {"new", "open", "closed"}
  /\ DOMAIN messageQueues \subseteq Users
  /\ processingUsers \subseteq Users
  /\ \A a \in active : a.pc \in {"saveUser", "invoke", "saveAI"}
  /\ chatCount \in 0..MaxChat
  /\ client.kind \in ClientKinds
  /\ client.socket \in SocketStates
  /\ client.connectionStatus \in Statuses
  /\ client.created \in 0..MaxSockets
  /\ client.timers \in 0..MaxSockets
  /\ client.armed => client.timers > 0

\* ------------------------------------------------- vocabulary of the claims
Reqs == 1..Len(enqueued)
IdsOf(queue) == {queue[i].id : i \in 1..Len(queue)}
InQueue(id) == \E u \in DOMAIN messageQueues : id \in IdsOf(messageQueues[u])
Sender(id) == enqueued[id].socket
UserOfReq(id) == conn[Sender(id)].userId
Started(id) == id \in DOMAIN procs
Running(id) == Started(id) /\ ~procs[id].completed
Failed(id) == Started(id) /\ procs[id].outcome = "rejected"
Succeeded(id) == Started(id) /\ procs[id].outcome = "resolved"
Completed(id) == Started(id) /\ procs[id].completed /\ ActivationOf(id) = {}
Dropped(id) == ~InQueue(id) /\ ActivationOf(id) = {} /\ ~Started(id)
RecordsOf(id, sender) ==
  {i \in 1..Len(transcript) : transcript[i].req = id /\ transcript[i].sender = sender}
BackendRecordsOf(id) ==
  {i \in 1..Len(transcript) : transcript[i].req = id /\ transcript[i].sender # "user"}
OutcomeEventsOf(id, type) ==
  {i \in 1..Len(emitted) : emitted[i].req = id /\ emitted[i].type = type}
HasValidToken(c) == HandshakeToken(c) \in ValidTokens

\* C1: for every user at most one activation of processMessageQueue is between
\* queue.shift() and processingUsers.delete, and at most one sendMessage call
\* made for that user is unsettled
C1_OneInFlight ==
  \A u \in Users :
    /\ Cardinality({a \in active : a.userId = u}) <= 1
    /\ Cardinality({id \in Reqs : UserOfReq(id) = u /\ Running(id)}) <= 1

\* an invocation is unsettled while two later entries of the same user, sent
\* from different connections, wait in the queue
C1_Witness ==
  \E a \in active :
    /\ a.pc = "invoke" /\ Running(a.id)
    /\ LET queue == QueueOf(messageQueues, a.userId) IN
       Len(queue) >= 2 /\ queue[1].socket # queue[2].socket

\* C2: per user, entries leave the queue in the order they entered it, and the
\* transcript records and outcome events of the requests follow that order
C2_Fifo ==
  /\ \A u \in DOMAIN messageQueues :
       \A i, j \in 1..Len(messageQueues[u]) :
         i < j => messageQueues[u][i].id < messageQueues[u][j].id
  /\ \A a \in active :
       \A id \in IdsOf(QueueOf(messageQueues, a.userId)) : a.id < id
  /\ \A i \in 1..Len(transcript) :
       /\ \A id \in IdsOf(QueueOf(messageQueues, transcript[i].userId)) :
            transcript[i].req < id
       /\ \A a \in active :
            a.userId = transcript[i].userId => transcript[i].req <= a.id
       /\ \A j \in 1..Len(transcript) :
            (i < j /\ transcript[i].userId = transcript[j].userId)
              => transcript[i].req <= transcript[j].req
  /\ \A i, j \in 1..Len(emitted) :
       (i < j /\ emitted[i].req # NoReq /\ emitted[j].req # NoReq)
         => emitted[i].req < emitted[j].req

\* three requests were enqueued, the first two have been served and each has
\* produced an outcome event
C2_Witness ==
  /\ Len(enqueued) >= 3
  /\ Completed(1) /\ Completed(2)
  /\ \E i, j \in 1..Len(emitted) : i < j /\ emitted[i].req = 1 /\ emitted[j].req = 2
  /\ RecordsOf(1, "user") # {} /\ RecordsOf(2, "user") # {}

\* C3: the in-flight flag is set exactly while an activation is running, and a
\* non-empty queue always has an activation running or a setImmediate pending
C3_NoStall ==
  \A u \in Users :
    /\ (u \in processingUsers) <=> (\E a \in active : a.userId = u)
    /\ Len(QueueOf(messageQueues, u)) > 0
         => (u \in processingUsers \/ scheduled[u] > 0)

\* a failed invocation has completed, the flag is clear and the next entry is
\* waiting for its scheduled activation
C3_Witness ==
  \E id \in Reqs :
    /\ Failed(id) /\ Completed(id)
    /\ UserOfReq(id) \notin processingUsers
    /\ scheduled[UserOfReq(id)] > 0
    /\ Len(QueueOf(messageQueues, UserOfReq(id))) > 0

\* C3 as progress: under FairSpec every queued entry leaves the queue
C3_Progress ==
  \A id \in 1..MaxChat : (id \in Reqs /\ InQueue(id)) ~> ~InQueue(id)

\* C4: every failed invocation has produced exactly one error event
C4_OneErrorPerFailure ==
  \A id \in Reqs : Failed(id) => Cardinality(OutcomeEventsOf(id, "error")) = 1

\* C5: every ai_response or error event of a request went to the connection
\* that sent the request
C5_ToSender ==
  \A i \in 1..Len(emitted) :
    emitted[i].req # NoReq => emitted[i].to = Sender(emitted[i].req)

\* C6: a chat message on a connection that has not authenticated (here: that
\* presented no valid token) yields one error event to the sender and changes
\* neither queue, flag, activations, invocations nor transcript
C6_UnauthenticatedRejected ==
  [][\A c \in Conns, content \in Contents :
       (ChatMessage(c, content) /\ ~HasValidToken(c))
         => /\ emitted' = Append(emitted, Event(c, "error", NoReq))
            /\ UNCHANGED <<messageQueues, processingUsers, active, procs,
                           transcript, enqueued>>]_vars

\* C7: a connection opened with no token or a rejected token has been sent an
\* error event and has no user id bound
C7_RejectedAtHandshake ==
  \A c \in Conns :
    (conn[c].state # "new" /\ ~HasValidToken(c))
      => /\ \E i \in 1..Len(emitted) : emitted[i].to = c /\ emitted[i].type = "error"
         /\ conn[c].userId = NoUser

\* C8 as stated: a completed request has its user message and a backend
\* record (the reply, or the error) in the transcript
C8_PairAlways ==
  \A id \in Reqs :
    Completed(id) => (RecordsOf(id, "user") # {} /\ BackendRecordsOf(id) # {})

\* C8 amended: a completed request has its user message in the transcript; a
\* successful one also has exactly one ai record, after the user message, that
\* carries the trimmed output; a failed one has no backend record
C8_PairOnSuccess ==
  \A id \in Reqs :
    Completed(id) =>
      /\ Cardinality(RecordsOf(id, "user")) = 1
      /\ Succeeded(id) =>
           /\ Cardinality(BackendRecordsOf(id)) = 1
           /\ \A i \in RecordsOf(id, "user"), j \in BackendRecordsOf(id) :
                i < j /\ transcript[j].sender = "ai" /\ transcript[j].content # <<>>
      /\ Failed(id) => BackendRecordsOf(id) = {}

\* one request has completed with success and a later one with failure
C8_Witness ==
  \E id1, id2 \in Reqs :
    /\ id1 < id2
    /\ Completed(id1) /\ Succeeded(id1)
    /\ Completed(id2) /\ Failed(id2)

\* C9: once the invocation of a request has started its user message is in the
\* transcript, and a failed or timed out request has no 'ai' record
C9_UserMessageKept ==
  \A id \in Reqs :
    Started(id) =>
      /\ \E i \in RecordsOf(id, "user") :
           transcript[i].content = enqueued[id].content
             /\ transcript[i].userId = UserOfReq(id)
      /\ Failed(id) => RecordsOf(id, "ai") = {}

\* a request has failed or timed out and completed, and its user message is
\* the last record of the transcript
C9_Witness ==
  \E id \in Reqs :
    /\ Completed(id) /\ Failed(id)
    /\ Len(transcript) > 0 /\ transcript[Len(transcript)].req = id

\* C10 as stated: no enqueued entry leaves the queue other than by being
\* dequeued for its invocation
C10_QueueSurvivesClose ==
  \A id \in Reqs : ~Dropped(id)

\* C10 amended: the queue holds no entry of a closed connection, and an entry
\* leaves it without being dequeued only when its own connection has closed
C10_OnlyOwnEntriesRemoved ==
  \A id \in Reqs :
    /\ InQueue(id) => conn[Sender(id)].state = "open"
    /\ Dropped(id) => conn[Sender(id)].state = "closed"

\* a connection closed with an entry pending, that entry is gone, and an entry
\* of another, still open connection of the same user is still queued
C10_Witness ==
  \E id1, id2 \in Reqs :
    /\ Sender(id1) # Sender(id2)
    /\ conn[Sender(id1)].state = "closed" /\ Dropped(id1)
    /\ conn[Sender(id2)].state = "open" /\ InQueue(id2)
    /\ UserOfReq(id1) = UserOfReq(id2)

\* C11: a request whose sending connection has closed keeps its activation
\* while its invocation is unsettled, has its user message stored once the
\* invocation has started and its ai message stored once a successful
\* invocation has completed; when it has completed the in-flight flag is set
\* only for a later activation and a non-empty queue is still being served
C11_NotCancelled ==
  \A id \in Reqs :
    (conn[Sender(id)].state = "closed" /\ Started(id)) =>
      /\ RecordsOf(id, "user") # {}
      /\ Running(id) =>
           /\ \E a \in ActivationOf(id) : a.pc = "invoke"
           /\ UserOfReq(id) \in processingUsers
      /\ Succeeded(id) =>
           \/ \E a \in ActivationOf(id) : a.pc = "saveAI"
           \/ RecordsOf(id, "ai") # {}
      /\ Completed(id) =>
           /\ (UserOfReq(id) \in processingUsers)
                => \E a \in active : a.userId = UserOfReq(id) /\ a.id > id
           /\ Len(QueueOf(messageQueues, UserOfReq(id))) > 0
                => (UserOfReq(id) \in processingUsers \/ scheduled[UserOfReq(id)] > 0)

\* the sender of the unsettled invocation has closed while a later entry of
\* another, open connection of the same user waits in the queue
C11_Witness ==
  \E id \in Reqs :
    /\ Running(id) /\ conn[Sender(id)].state = "closed"
    /\ \E a \in ActivationOf(id) : a.pc = "invoke"
    /\ LET queue == QueueOf(messageQueues, UserOfReq(id)) IN
       Len(queue) > 0 /\ conn[queue[1].socket].state = "open"

\* C11 as progress: under FairSpec an invocation whose sender has closed
\* completes
C11_Completes ==
  \A id \in 1..MaxChat :
    (id \in Reqs /\ Running(id) /\ conn[Sender(id)].state = "closed") ~> Completed(id)

\* the request of a closed connection has completed with success and the
\* entry that waited behind it has been dequeued
C11_Continued ==
  \E id1, id2 \in Reqs :
    /\ id1 < id2 /\ Sender(id1) # Sender(id2)
    /\ conn[Sender(id1)].state = "closed" /\ Completed(id1) /\ Succeeded(id1)
    /\ RecordsOf(id1, "ai") # {}
    /\ Started(id2)

Principal(c) == HandshakeToken(c)

\* C13: a chat message of an authenticated client that has nothing queued and
\* nothing in flight is dequeued for its invocation in the same step, whatever
\* other clients have queued or in flight
C13_StartsImmediately ==
  [][\A c \in Conns :
       (/\ ChatMessage(c, "hello")
        /\ HasValidToken(c)
        /\ \A a \in active : Principal(a.socket) # Principal(c)
        /\ \A u \in DOMAIN messageQueues : \A i \in 1..Len(messageQueues[u]) :
             Principal(messageQueues[u][i].socket) # Principal(c))
         => \E a \in active' : a.id = Len(enqueued) + 1 /\ a.socket = c]_vars

\* C15: every ai record of the transcript is preceded by the user record of
\* the same request, and no user record of a request follows its ai record
C15_UserBeforeReply ==
  \A j \in 1..Len(transcript) :
    transcript[j].sender = "ai" =>
      /\ \E i \in 1..(j - 1) :
           /\ transcript[i].sender = "user"
           /\ transcript[i].req = transcript[j].req
           /\ transcript[i].content = enqueued[transcript[j].req].content
      /\ \A k \in (j + 1)..Len(transcript) :
           ~(transcript[k].sender = "user" /\ transcript[k].req = transcript[j].req)

\* the replies of two requests are in the transcript
C15_Witness ==
  \E i, j \in 1..Len(transcript) :
    /\ i < j
    /\ transcript[i].sender = "ai" /\ transcript[j].sender = "ai"
    /\ transcript[i].req # transcript[j].req

\* C18: every ai_response event and every ai record belongs to a request whose
\* invocation resolved (exit code 0 and non-empty trimmed output), and an ai
\* record holds a non-empty, trimmed text; a request whose invocation was
\* rejected has neither
C18_NoFailedOutput ==
  /\ \A i \in 1..Len(emitted) :
       emitted[i].type = "ai_response" => Succeeded(emitted[i].req)
  /\ \A i \in 1..Len(transcript) :
       transcript[i].sender = "ai" =>
         /\ Succeeded(transcript[i].req)
         /\ transcript[i].content # <<>>
         /\ transcript[i].content = Trim(transcript[i].content)
  /\ \A id \in Reqs :
       Failed(id) => (OutcomeEventsOf(id, "ai_response") = {} /\ RecordsOf(id, "ai") = {})

\* an invocation failed or timed out, and a later one of the same run
\* succeeded and was delivered
C18_Witness ==
  \E id1, id2 \in Reqs :
    /\ id1 < id2
    /\ Completed(id1) /\ Failed(id1)
    /\ Completed(id2) /\ Succeeded(id2)
    /\ OutcomeEventsOf(id2, "ai_response") # {}

\* C19: when the invocation of a request has started, every earlier started
\* request of the same user has a settled invocation and an ai_response or
\* error event of its own
C19_AfterOutcomeEmitted ==
  \A id1, id2 \in Reqs :
    (id1 < id2 /\ UserOfReq(id1) = UserOfReq(id2) /\ Started(id1) /\ Started(id2))
      => /\ Completed(id1)
         /\ OutcomeEventsOf(id1, "ai_response") \cup OutcomeEventsOf(id1, "error") # {}

\* the part of C19 that the code keeps: the earlier request has completed, and
\* if it succeeded its ai_response event has been emitted
C19_AfterCompletion ==
  \A id1, id2 \in Reqs :
    (id1 < id2 /\ UserOfReq(id1) = UserOfReq(id2) /\ Started(id1) /\ Started(id2))
      => /\ Completed(id1)
         /\ Succeeded(id1) => OutcomeEventsOf(id1, "ai_response") # {}

\* C16: a call is unsettled until its first terminal event; from then on it is
\* resolved with the trimmed stdout exactly when that event was a close with
\* code 0 and stdout non-empty after trimming, and rejected when it was any
\* other close, a spawn error, or the timeout
C16_Classification ==
  \A id \in DOMAIN cli :
    LET p == cli[id] IN
    /\ p.first = <<>> => p.settled = <<>>
    /\ p.first # <<>> =>
         LET e == p.first[1]
             success == e.type = "close" /\ e.code = 0 /\ Trim(e.output) # <<>>
         IN /\ Len(p.settled) >= 1
            /\ success => p.settled[1] = [kind |-> "resolve", value |-> Trim(e.output)]
            /\ ~success => p.settled[1].kind = "reject"
            /\ e.type = "timeout" => p.settled[1].value = <<"timeout">>
            /\ e.type = "error" => p.settled[1].value = <<"spawn">>

\* a call whose stdout had blanks around the text was resolved with the text
C16_Witness ==
  \E id \in DOMAIN cli :
    /\ cli[id].settled # <<>> /\ cli[id].settled[1].kind = "resolve"
    /\ cli[id].settled[1].value # cli[id].first[1].output

\* a call closed with code 0 and blank stdout, and was rejected
C16_EmptyRejected ==
  \E id \in DOMAIN cli :
    /\ cli[id].first # <<>> /\ cli[id].first[1].type = "close"
    /\ cli[id].first[1].code = 0 /\ cli[id].first[1].output # <<>>
    /\ cli[id].settled[1].kind = "reject"

\* C17: with a process that never exits by itself, a call stays pending with
\* its activation until its timer fires; once the timer has fired the process
\* was sent the kill signal, the call was rejected once with the timeout
\* error, its activation has ended, and a non-empty queue of the user has an
\* activation running or scheduled
C17_TimeoutFreesQueue ==
  \A id \in DOMAIN cli :
    LET p == cli[id]
        u == UserOfReq(id)
    IN /\ p.timer => (Running(id) /\ ~p.killed /\ p.settled = <<>>
                       /\ \E a \in ActivationOf(id) : a.pc = "invoke")
       /\ ~p.timer =>
            /\ p.killed /\ p.settled = <<Reject("timeout")>>
            /\ Failed(id) /\ Completed(id)
            /\ RecordsOf(id, "ai") = {}
            /\ (u \in processingUsers) => \E a \in active : a.userId = u /\ a.id > id
            /\ Len(QueueOf(messageQueues, u)) > 0
                 => (u \in processingUsers \/ scheduled[u] > 0)

\* the first call timed out and was killed, and the process of the entry that
\* waited behind it has been spawned
C17_Witness ==
  \E id1, id2 \in DOMAIN cli :
    /\ id1 < id2
    /\ ~cli[id1].timer /\ cli[id1].killed
    /\ cli[id2].timer /\ Running(id2)
    /\ UserOfReq(id1) = UserOfReq(id2)

\* C17 as progress: under HangFairSpec every spawned call is timed out and
\* killed, and every queued entry leaves the queue
C17_NextInvoked ==
  \A id \in 1..MaxChat :
    /\ (id \in DOMAIN cli) ~> (id \in DOMAIN cli /\ cli[id].killed /\ Completed(id))
    /\ (id \in Reqs /\ InQueue(id)) ~> ~InQueue(id)

\* the sendMessage calls made for a user that have not settled, on the
\* Socket.IO path and on the REST path
SocketInvocations(u) == {id \in Reqs : UserOfReq(id) = u /\ Running(id)}
RestInvocations(u) == {r \in rest : r.userId = u}

\* C14: at most one Gemini CLI invocation of a user is running, counting the
\* chat_message path and the REST chat route together
C14_OneInvocationPerUser ==
  \A u \in Users :
    Cardinality(SocketInvocations(u)) + Cardinality(RestInvocations(u)) <= 1

\* C20: a validateSession call never ends by throwing, and it returns null for
\* the empty token, for a token that has no session, and whenever the session
\* or the user lookup raised; a user is returned only for an issued token,
\* and it is the user of the session that was looked up
C20_NeverThrows ==
  /\ auth.pc # "threw"
  /\ auth.pc = "returned" =>
       /\ auth.token \in {NoToken, "bad"} => auth.result = NoUser
       /\ auth.raised => auth.result = NoUser
       /\ auth.result # NoUser =>
            (auth.token \in auth.issued /\ auth.result = auth.session)

\* the user lookup raised for a token whose session is stored, and the call
\* returned null
C20_Witness ==
  /\ auth.pc = "returned" /\ auth.raised /\ auth.session # NoUser
  /\ auth.token \in DOMAIN auth.sessions
  /\ auth.result = NoUser

\* a call returned the user of the session
C20_UserReturned ==
  auth.pc = "returned" /\ auth.result = DefaultUserId /\ ~auth.raised

\* C22: a call whose promise has settled has a process that has ended (or was
\* never started, when the spawn failed) or that was sent the kill signal
C22_NoProcessLeft ==
  \A id \in DOMAIN cli :
    cli[id].settled # <<>> => (~cli[id].alive \/ cli[id].killed)

\* a call was rejected by its timer: the signal was sent and the process has
\* not closed yet
C22_Witness ==
  \E id \in DOMAIN cli :
    /\ cli[id].settled = <<Reject("timeout")>>
    /\ cli[id].killed /\ cli[id].alive /\ ~cli[id].closed

\* C24: a call is settled at most once, exactly when processCompleted is set,
\* and by its first terminal event: a close, error or timer callback that
\* comes later adds no settlement
C24_SettledOnce ==
  \A id \in DOMAIN cli :
    /\ Len(cli[id].settled) <= 1
    /\ cli[id].processCompleted <=> Len(cli[id].settled) = 1
    /\ cli[id].processCompleted <=> cli[id].first # <<>>

\* the timer rejected the call and the close event of the killed process has
\* been handled since
C24_Witness ==
  \E id \in DOMAIN cli :
    /\ cli[id].first # <<>> /\ cli[id].first[1].type = "timeout"
    /\ cli[id].killed /\ cli[id].closed
    /\ cli[id].settled = <<Reject("timeout")>>

\* C24 as steps: once a call is settled no step changes its settlement
C24_LaterEventsIgnored ==
  [][\A id \in DOMAIN cli :
       cli[id].settled # <<>> => cli'[id].settled = cli[id].settled]_vars

\* C25: a disconnect leaves in the user's queue exactly the entries that were
\* not enqueued from the closing connection, in the order they had, and
\* changes neither the activations, the invocations nor the in-flight flag
C25_RemovesOwnEntriesOnly ==
  [][\A c \in Conns :
       Disconnect(c) =>
         LET before == QueueOf(messageQueues, conn[c].userId)
             after == QueueOf(messageQueues', conn[c].userId)
         IN /\ IdsOf(after) = {before[k].id : k \in {k \in 1..Len(before) : before[k].socket # c}}
            /\ \A i, j \in 1..Len(after) :
                 i < j => \E k, l \in 1..Len(before) :
                            k < l /\ before[k] = after[i] /\ before[l] = after[j]
            /\ Len(after) = Cardinality(IdsOf(after))
            /\ UNCHANGED <<active, procs, processingUsers, scheduled>>]_vars

\* an invocation is running, the entry queued behind it was removed when its
\* connection closed, and a later entry of another connection is still queued
C25_Witness ==
  \E id1, id2, id3 \in Reqs :
    /\ id1 < id2 /\ id2 < id3
    /\ Running(id1) /\ UserOfReq(id1) \in processingUsers
    /\ Dropped(id2) /\ conn[Sender(id2)].state = "closed"
    /\ InQueue(id3) /\ Sender(id3) # Sender(id2)

\* C26: a chat_message without content emits one error event to its sender
\* and changes neither the queues, the flag, the activations, the invocations,
\* the pending callbacks nor the transcript
C26_EmptyContentRejected ==
  [][\A c \in Conns :
       ChatMessage(c, "") =>
         /\ emitted' = Append(emitted, Event(c, "error", NoReq))
         /\ UNCHANGED <<messageQueues, processingUsers, active, scheduled, procs,
                        transcript, enqueued, conn>>]_vars

\* the error for a message without content was emitted while an invocation
\* was running and an entry was queued
C26_Witness ==
  /\ Len(emitted) > 0
  /\ emitted[Len(emitted)].req = NoReq /\ emitted[Len(emitted)].type = "error"
  /\ \E a \in active : a.pc = "invoke"
  /\ \E u \in DOMAIN messageQueues : Len(messageQueues[u]) > 0

\* C21: a validateSession call made for a token whose session had expired
\* when the call was made returns null, with either storage class
C21_ExpiredRejected ==
  (auth.pc = "returned" /\ auth.wasExpired) => auth.result = NoUser

\* the part of C21 that holds: with MemStorage such a call returns null
C21_MemStorageRejects ==
  (auth.impl = "mem" /\ auth.pc = "returned" /\ auth.wasExpired)
    => auth.result = NoUser

\* C29: a validateSession call made for a token after its logout returns
\* null, and a session is missing from the table only if its own token was
\* logged out or had expired
C29_LoggedOutRejected ==
  /\ (auth.pc = "returned" /\ auth.wasLoggedOut) => auth.result = NoUser
  /\ \A t \in auth.loggedOut : t \notin DOMAIN auth.sessions
  /\ \A t \in auth.issued :
       t \notin DOMAIN auth.sessions => t \in auth.loggedOut \cup auth.expired

\* one token of the user was logged out, and a later validateSession call
\* for the user's other token returned the user
C29_Witness ==
  \E t \in auth.loggedOut :
    /\ auth.pc = "returned" /\ auth.token # t /\ auth.token \in auth.issued
    /\ auth.result = DefaultUserId

\* a call for a logged out token returned null
C29_NullAfterLogout ==
  auth.pc = "returned" /\ auth.wasLoggedOut /\ auth.result = NoUser /\ ~auth.raised

\* C30: the files that a FileService call returned or changed all belong to
\* the user the call was made for
C30_OwnFilesOnly ==
  fs.last.owners \subseteq {fs.last.caller}

\* the part of C30 that holds: getFile, updateFile and deleteFile with either
\* storage class, and getFiles with MemStorage
C30_CheckedCallsIsolated ==
  (fs.last.op # "getFiles" \/ fs.impl = "mem")
    => fs.last.owners \subseteq {fs.last.caller}

\* the answers sent on a WebSocket connection
WsAnswers(c) == {ws[c].sent[i] : i \in 1..Len(ws[c].sent)}

\* C27: a connection opened with a valid session token is never sent
\* 'Not authenticated'
C27_ValidTokenNeverRejected ==
  \A c \in WsConns :
    ws[c].token \in ValidTokens => "not_authenticated" \notin WsAnswers(c)

\* the part of C27 that holds: once validateSession has answered for a valid
\* token, no message on the connection is answered 'Not authenticated'
C27_AfterValidationProcessed ==
  [][\A c \in WsConns, type \in WsMessageTypes :
       (WsMessage(c, type) /\ ws[c].token \in ValidTokens /\ ~ws[c].validating)
         => ws'[c].sent = ws[c].sent \/ ws'[c].sent[Len(ws'[c].sent)] # "not_authenticated"]_vars

\* C23: in every reachable state of a browser client reconnectAttempts is at
\* most maxReconnectAttempts
C23_CounterBounded ==
  client.reconnectAttempts <= maxReconnectAttempts

\* a failure reported to the SocketManager: 'connect_error' or an unexpected
\* 'disconnect'
ManagerFailure ==
  \E e \in {"current"} \cup OrphanStates : OnConnectError(e) \/ OnDisconnect(e)

\* the part of C23 that holds, the SocketManager: its counter never exceeds
\* the maximum, 'connect' resets it to 0, a failure below the maximum counts
\* one attempt and schedules one reconnect after the backoff delay of the new
\* count, and a failure at the maximum schedules nothing and sets status 'error'
C23_SocketManagerBacksOff ==
  [][/\ IsManager => client'.reconnectAttempts <= maxReconnectAttempts
     /\ (\E e \in {"current"} \cup OrphanStates : OnConnect(e))
          => client'.reconnectAttempts = 0
     /\ (ManagerFailure /\ client.reconnectAttempts < maxReconnectAttempts)
          => /\ client'.reconnectAttempts = client.reconnectAttempts + 1
             /\ client'.timers = client.timers + 1
             /\ client'.armed
             /\ client'.delay = Backoff(client'.reconnectAttempts)
             /\ client'.connectionStatus = "reconnecting"
     /\ (ManagerFailure /\ client.reconnectAttempts = maxReconnectAttempts)
          => /\ client'.reconnectAttempts = maxReconnectAttempts
             /\ client'.timers = client.timers
             /\ client'.connectionStatus = "error"]_vars

\* the SocketManager gave up: a failure at the maximum, no reconnect pending
C23_ManagerGaveUp ==
  /\ IsManager
  /\ client.reconnectAttempts = maxReconnectAttempts
  /\ client.last \in {"connect_error", "disconnect"}
  /\ client.connectionStatus = "error"
  /\ client.timers = 0

\* C28: after disconnect() no reconnect timer is pending and the client holds
\* no socket, until the application connects again
C28_NoReconnectAfterDisconnect ==
  client.manual => (client.timers = 0 /\ client.socket = "null")

\* the part of C28 that holds: the SocketManager, and the hook when
\* autoReconnect is false
C28_ManagerStaysDisconnected ==
  (client.manual /\ (IsManager \/ ~client.autoReconnect))
    => (client.timers = 0 /\ client.socket = "null")

\* a SocketManager disconnected by the application while a reconnect was
\* pending or a socket was open
C28_ManagerDisconnected ==
  IsManager /\ client.manual /\ client.last = "disconnect()" /\ client.created > 1

====
